---- MODULE Spec2Model ----
(***************************************************************************)
(* python-feed-tools: the serial (serial.py) and the bounded-parallel      *)
(* (parallel.py) feed readers.  One behaviour is one run of one of the two *)
(* programs against one environment (API_TOKEN), one HTTP answer and one   *)
(* gzip stream of newline-terminated byte lines.                           *)
(***************************************************************************)
EXTENDS Integers, Sequences, FiniteSets, TLC

\* ------------------------------------------------------------------ bounds
MaxLines == 4
MaxBatchSize == 3
MaxWorkers == 2

\* ------------------------------------------------------------------ inputs
\* Bytes of the decompressed stream are ASCII codes: 10 LF, 32 space,
\* 49 '1', 123 '{', 125 '}'.
\* The raw lines a gzip file iteration can hand out: each ends in LF.
\*   "1\n"  -> "1"   a JSON number
\*   " {}\n" -> "{}" a JSON object, with leading whitespace to strip
\*   "{\n"  -> "{"   not JSON
RawLines == { <<49, 10>>, <<32, 123, 125, 10>>, <<123, 10>> }

\* os.environ: API_TOKEN unset, set to the empty string, or set.
Unset == "<unset>"
Environments == { Unset, "", "secret" }

StatusCodes == { 200, 404, 503 }

RECURSIVE SeqsUpTo(_, _)
SeqsUpTo(S, n) ==
    IF n = 0 THEN { <<>> }
    ELSE LET shorter == SeqsUpTo(S, n - 1)
         IN  shorter \cup { Append(s, x) : s \in { t \in shorter : Len(t) = n - 1 }, x \in S }

VARIABLES
    prog,                   \* which script runs: "serial" or "parallel"
    environ,                \* value of API_TOKEN in the environment
    status_code,            \* response.status_code the endpoint answers with
    stream,                 \* the lines of the gzip file, as bytes
    batch_size,             \* stream_and_process's batch_size
    max_workers,            \* main's max_workers
    pc,                     \* position of the main control flow
    token,                  \* main's token
    requested,              \* number of requests.get calls issued
    executor,               \* ProcessPoolExecutor: "none", "open", "shutdown"
    gen,                    \* generator stream_and_process: position
    pos,                    \* lines of gzip_file consumed so far
    gbatch,                 \* the generator's local `batch`
    batch,                  \* main's loop variable `batch`
    emitted,                \* history: the batches yielded, in order
    tasks,                  \* work items of the pool, in submission order
    futures,                \* main's set `futures` (indices into tasks)
    harvested,              \* history: futures whose .result() was called, in order
    drained,                \* futures already yielded by the final as_completed
    total_lines_processed,  \* parallel main's running total
    line_count,             \* serial main's counter
    processed,              \* history: the lines process_line returned, in order
    out,                    \* what was printed, in order
    exc                     \* the uncaught exception, "" while none

inputs == << prog, environ, status_code, stream, batch_size, max_workers >>
genvars == << gen, pos, gbatch, emitted >>
poolvars == << executor, tasks, futures, harvested, drained >>
vars == << prog, environ, status_code, stream, batch_size, max_workers,
           pc, token, requested, executor, gen, pos, gbatch, batch, emitted,
           tasks, futures, harvested, drained, total_lines_processed,
           line_count, processed, out, exc >>

\* ----------------------------------------------------------- pure helpers
\* os.getenv('API_TOKEN', ''): the default stands in for an unset variable.
Getenv(env) == IF env = Unset THEN "" ELSE env

\* Variant: tests only for a variable that is not set at all.
TokenMissing_unset_only(t) == t = Unset

\* `not token or token == ''`
TokenMissing(t) == t = ""

\* bytes.decode() on the ASCII bytes of the model.
DecodeByte(b) ==
    CASE b = 10  -> "\n"
      [] b = 32  -> " "
      [] b = 49  -> "1"
      [] b = 123 -> "{"
      [] b = 125 -> "}"

Decode(bytes) == [ i \in 1..Len(bytes) |-> DecodeByte(bytes[i]) ]

Whitespace == { " ", "\n" }

RECURSIVE LStrip(_)
LStrip(s) == IF s # <<>> /\ Head(s) \in Whitespace THEN LStrip(Tail(s)) ELSE s

RECURSIVE RStrip(_)
RStrip(s) ==
    IF s # <<>> /\ s[Len(s)] \in Whitespace THEN RStrip(SubSeq(s, 1, Len(s) - 1)) ELSE s

\* str.strip()
Strip(s) == RStrip(LStrip(s))

\* line.decode().strip()
Line(raw) == Strip(Decode(raw))

\* json.loads(line) returns for these documents and raises JSONDecodeError
\* for every other text of the model's alphabet.
JsonLoadsOk(line) == line \in { <<"1">>, <<"{", "}">> }

\* The print calls.
PrintToken == [ msg |-> "Please set the API_TOKEN environment variable", arg |-> 0 ]
PrintFailed(code) == [ msg |-> "Failed to retrieve data", arg |-> code ]
PrintTime == [ msg |-> "Total time taken", arg |-> 0 ]
PrintTotal(n) == [ msg |-> "Total lines processed", arg |-> n ]

\* ------------------------------------------------------------ parallel.py
\* process_batch(batch): json.loads every line in order; the first line that
\* does not parse raises out of the loop, otherwise len(batch) is returned.
RECURSIVE BatchLoop(_, _)
BatchLoop(b, i) ==
    IF i > Len(b) THEN [ raised |-> FALSE, value |-> Len(b) ]
    ELSE IF ~JsonLoadsOk(b[i]) THEN [ raised |-> TRUE, value |-> 0 ]
    ELSE BatchLoop(b, i + 1)

\* Variant: returns the index of the last line instead of the length.
process_batch_last_index(b) ==
    LET r == BatchLoop(b, 1)
    IN  IF r.raised THEN r ELSE [ raised |-> FALSE, value |-> Len(b) - 1 ]

\* Variant: skips a line that does not parse and counts the others.
process_batch_skip_bad(b) ==
    [ raised |-> FALSE,
      value |-> Cardinality({ i \in 1..Len(b) : JsonLoadsOk(b[i]) }) ]

process_batch(b) == BatchLoop(b, 1)

\* Variant: only "not found" counts as a failed request.
StatusOk_only_404(code) == code # 404

\* `response.status_code != 200` is false
StatusOk(code) == code = 200

\* `len(batch) >= batch_size`
BatchFull(b) == Len(b) >= batch_size

\* Variant: the buffer is yielded after the loop whether or not it is empty.
TrailingBatch_always(b) == TRUE

\* `if batch:` after the loop over gzip_file
TrailingBatch(b) == b # <<>>

\* Variant: the buffer is not reset after a yield.
ResumeBuffer_keep(b) == b

\* `batch = []` on resuming after the yield inside the loop
ResumeBuffer(b) == <<>>

\* The generator body from a resumption to its next yield or its return:
\* append stripped lines to the buffer until it is full or the file ends.
RECURSIVE ReadLoop(_, _)
ReadLoop(buf, p) ==
    IF p = Len(stream)
    THEN [ batch |-> buf, pos |-> p,
           at |-> IF TrailingBatch(buf) THEN "at90" ELSE "finished" ]
    ELSE LET b == Append(buf, Line(stream[p + 1]))
         IN  IF BatchFull(b) THEN [ batch |-> b, pos |-> p + 1, at |-> "at87" ]
             ELSE ReadLoop(b, p + 1)

\* Variant: main waits as soon as anything is outstanding.
PoolFull_eager == Cardinality(futures) >= 1

\* Variant: `>` for `>=`.
PoolFull_strict == Cardinality(futures) > max_workers

\* `len(futures) >= max_workers`
PoolFull == Cardinality(futures) >= max_workers

Done(t) == tasks[t].state \in { "completed", "failed" }

\* main, lines 125-134: the credential check, then the pool is created.
P_CheckToken ==
    /\ prog = "parallel" /\ pc = "start"
    /\ token' = Getenv(environ)
    /\ IF TokenMissing(token')
       THEN /\ out' = Append(out, PrintToken)
            /\ pc' = "done"
            /\ UNCHANGED executor
       ELSE /\ executor' = "open"
            /\ pc' = "next_batch"
            /\ UNCHANGED out
    /\ UNCHANGED << inputs, requested, genvars, batch, tasks, futures, harvested,
                    drained, total_lines_processed, line_count, processed, exc >>

\* The first next() on the generator: the GET and the status check.
P_Request ==
    /\ prog = "parallel" /\ pc = "next_batch" /\ gen = "unstarted"
    /\ requested' = requested + 1
    /\ IF StatusOk(status_code)
       THEN /\ gen' = "open"
            /\ UNCHANGED << out, pc >>
       ELSE /\ out' = Append(out, PrintFailed(status_code))
            /\ gen' = "finished"
            /\ pc' = "drain"
    /\ UNCHANGED << inputs, token, pos, gbatch, emitted, batch, poolvars,
                    total_lines_processed, line_count, processed, exc >>

\* next() on the generator: run it to its next yield, or to its return, which
\* ends main's for loop.
P_NextBatch ==
    /\ prog = "parallel" /\ pc = "next_batch" /\ gen \in { "open", "at87", "at90" }
    /\ \E r \in { CASE gen = "open" -> ReadLoop(<<>>, pos)
                    [] gen = "at87" -> ReadLoop(ResumeBuffer(gbatch), pos)
                    [] gen = "at90" -> [ batch |-> gbatch, pos |-> pos, at |-> "finished" ] } :
           /\ gen' = r.at
           /\ pos' = r.pos
           /\ gbatch' = r.batch
           /\ IF r.at = "finished"
              THEN /\ pc' = "drain"
                   /\ UNCHANGED << batch, emitted >>
              ELSE /\ batch' = r.batch
                   /\ emitted' = Append(emitted, r.batch)
                   /\ pc' = "admit"
    /\ UNCHANGED << inputs, token, requested, poolvars, total_lines_processed,
                    line_count, processed, out, exc >>

\* `if len(futures) >= max_workers:`
P_Admit ==
    /\ prog = "parallel" /\ pc = "admit"
    /\ pc' = IF PoolFull THEN "wait_one" ELSE "submit"
    /\ UNCHANGED << inputs, token, requested, genvars, batch, poolvars,
                    total_lines_processed, line_count, processed, out, exc >>

\* The members of a set of futures in submission order.
RECURSIVE InOrder(_)
InOrder(S) ==
    IF S = {} THEN <<>>
    ELSE LET f == CHOOSE x \in S : \A y \in S : x <= y
         IN  << f >> \o InOrder(S \ { f })

\* The sum of the results of a set of futures.
RECURSIVE ResultSum(_)
ResultSum(S) ==
    IF S = {} THEN 0
    ELSE LET f == CHOOSE x \in S : TRUE
         IN  tasks[f].result + ResultSum(S \ { f })

\* Variant: no `break`, every future that has finished is harvested.
P_WaitOne_harvest_all ==
    /\ prog = "parallel" /\ pc = "wait_one"
    /\ \E ready \in { { f \in futures : tasks[f].state \in { "completed", "failed" } } } :
        /\ ready # {}
        /\ harvested' = harvested \o InOrder(ready)
        /\ IF \E f \in ready : tasks[f].state = "failed"
           THEN /\ exc' = "JSONDecodeError"
                /\ pc' = "unwind"
                /\ UNCHANGED << futures, total_lines_processed >>
           ELSE /\ total_lines_processed' = total_lines_processed + ResultSum(ready)
                /\ futures' = futures \ ready
                /\ pc' = "submit"
                /\ UNCHANGED exc
    /\ UNCHANGED << inputs, token, requested, genvars, batch, executor, tasks,
                    drained, line_count, processed, out >>

\* Variant: a failed future is dropped from the set and the loop goes on.
P_WaitOne_swallow ==
    /\ prog = "parallel" /\ pc = "wait_one"
    /\ \E f \in futures :
        /\ tasks[f].state \in { "completed", "failed" }
        /\ harvested' = Append(harvested, f)
        /\ total_lines_processed' = total_lines_processed + tasks[f].result
        /\ futures' = futures \ { f }
        /\ pc' = "submit"
    /\ UNCHANGED << inputs, token, requested, genvars, batch, executor, tasks,
                    drained, line_count, processed, out, exc >>

\* Variant: the harvested future is not removed from the set.
P_WaitOne_no_remove ==
    /\ prog = "parallel" /\ pc = "wait_one"
    /\ \E f \in futures :
        /\ tasks[f].state \in { "completed", "failed" }
        /\ harvested' = Append(harvested, f)
        /\ IF tasks[f].state = "failed"
           THEN /\ exc' = "JSONDecodeError"
                /\ pc' = "unwind"
                /\ UNCHANGED total_lines_processed
           ELSE /\ total_lines_processed' = total_lines_processed + tasks[f].result
                /\ pc' = "submit"
                /\ UNCHANGED exc
    /\ UNCHANGED << inputs, token, requested, genvars, batch, executor, tasks,
                    futures, drained, line_count, processed, out >>

\* The first future as_completed(futures) yields: result() adds to the total
\* or re-raises the worker's exception; then remove and break.
P_WaitOne ==
    /\ prog = "parallel" /\ pc = "wait_one"
    /\ \E f \in futures :
        /\ Done(f)
        /\ harvested' = Append(harvested, f)
        /\ IF tasks[f].state = "failed"
           THEN /\ exc' = "JSONDecodeError"
                /\ pc' = "unwind"
                /\ UNCHANGED << futures, total_lines_processed >>
           ELSE /\ total_lines_processed' = total_lines_processed + tasks[f].result
                /\ futures' = futures \ { f }
                /\ pc' = "submit"
                /\ UNCHANGED exc
    /\ UNCHANGED << inputs, token, requested, genvars, batch, executor, tasks,
                    drained, line_count, processed, out >>

\* executor.submit(process_batch, batch); futures.add(future)
P_Submit ==
    /\ prog = "parallel" /\ pc = "submit"
    /\ tasks' = Append(tasks, [ batch |-> batch, state |-> "pending", result |-> 0 ])
    /\ futures' = futures \cup { Len(tasks) + 1 }
    /\ pc' = "next_batch"
    /\ UNCHANGED << inputs, token, requested, genvars, batch, executor, harvested,
                    drained, total_lines_processed, line_count, processed, out, exc >>

\* The futures the final as_completed(futures) may yield next.
DrainReady == { f \in futures \ drained : Done(f) }

\* Variant: a failed batch is handed to the pool again instead of raising.
P_Drain_retry ==
    /\ prog = "parallel" /\ pc = "drain"
    /\ \E f \in DrainReady :
        IF tasks[f].state = "failed"
        THEN /\ tasks' = [ tasks EXCEPT ![f].state = "pending" ]
             /\ UNCHANGED << drained, harvested, total_lines_processed >>
        ELSE /\ drained' = drained \cup { f }
             /\ harvested' = Append(harvested, f)
             /\ total_lines_processed' = total_lines_processed + tasks[f].result
             /\ UNCHANGED tasks
    /\ UNCHANGED << inputs, pc, token, requested, genvars, batch, executor,
                    futures, line_count, processed, out, exc >>

\* Variant: a failure is recorded and the final loop goes on.
P_Drain_continue ==
    /\ prog = "parallel" /\ pc = "drain"
    /\ \E f \in DrainReady :
        /\ drained' = drained \cup { f }
        /\ harvested' = Append(harvested, f)
        /\ IF tasks[f].state = "failed"
           THEN /\ exc' = "JSONDecodeError"
                /\ pc' = IF drained' = futures THEN "unwind" ELSE "drain"
                /\ UNCHANGED total_lines_processed
           ELSE /\ total_lines_processed' = total_lines_processed + tasks[f].result
                /\ pc' = IF exc # "" /\ drained' = futures THEN "unwind" ELSE "drain"
                /\ UNCHANGED exc
    /\ UNCHANGED << inputs, token, requested, genvars, batch, executor, tasks,
                    futures, line_count, processed, out >>

\* One iteration of the final `for future in as_completed(futures)`.
P_Drain ==
    /\ prog = "parallel" /\ pc = "drain"
    /\ \E f \in DrainReady :
        /\ drained' = drained \cup { f }
        /\ harvested' = Append(harvested, f)
        /\ IF tasks[f].state = "failed"
           THEN /\ exc' = "JSONDecodeError"
                /\ pc' = "unwind"
                /\ UNCHANGED total_lines_processed
           ELSE /\ total_lines_processed' = total_lines_processed + tasks[f].result
                /\ UNCHANGED << exc, pc >>
    /\ UNCHANGED << inputs, token, requested, genvars, batch, executor, tasks,
                    futures, line_count, processed, out >>

\* Variant: the final loop breaks after one future, like the loop above it.
DrainFinished_break == drained # {} \/ futures = {}

\* The final as_completed has yielded every future.
DrainFinished == drained = futures

\* The final loop ends and the `with` block exits: shutdown(wait=True).
P_DrainDone ==
    /\ prog = "parallel" /\ pc = "drain"
    /\ DrainFinished
    /\ \A t \in 1..Len(tasks) : Done(t)
    /\ executor' = "shutdown"
    /\ pc' = "report"
    /\ UNCHANGED << inputs, token, requested, genvars, batch, tasks, futures,
                    harvested, drained, total_lines_processed, line_count, processed, out, exc >>

\* Variant: the pool is shut down without waiting for the work in flight.
P_Unwind_nowait ==
    /\ prog = "parallel" /\ pc = "unwind"
    /\ executor' = "shutdown"
    /\ pc' = "aborted"
    /\ UNCHANGED << inputs, token, requested, genvars, batch, tasks, futures,
                    harvested, drained, total_lines_processed, line_count, processed, out, exc >>

\* An exception leaves the `with` block: shutdown(wait=True) joins the
\* workers, so every submitted work item still runs, then main dies.
P_Unwind ==
    /\ prog = "parallel" /\ pc = "unwind"
    /\ \A t \in 1..Len(tasks) : Done(t)
    /\ executor' = "shutdown"
    /\ pc' = "aborted"
    /\ UNCHANGED << inputs, token, requested, genvars, batch, tasks, futures,
                    harvested, drained, total_lines_processed, line_count, processed, out, exc >>

\* The two print calls that end main.
P_Report ==
    /\ prog = "parallel" /\ pc = "report"
    /\ out' = out \o << PrintTime, PrintTotal(total_lines_processed) >>
    /\ pc' = "done"
    /\ UNCHANGED << inputs, token, requested, genvars, batch, poolvars,
                    total_lines_processed, line_count, processed, exc >>

Running == { t \in 1..Len(tasks) : tasks[t].state = "running" }

\* Variant: work items still pending when main fails are cancelled.
W_Start_cancel_on_abort(t) ==
    /\ executor = "open" /\ pc # "unwind"
    /\ tasks[t].state = "pending"
    /\ Cardinality(Running) < max_workers
    /\ tasks' = [ tasks EXCEPT ![t].state = "running" ]
    /\ UNCHANGED << inputs, pc, token, requested, genvars, batch, executor, futures,
                    harvested, drained, total_lines_processed, line_count, processed, out, exc >>

\* A pool process takes a pending work item.
W_Start(t) ==
    /\ executor = "open"
    /\ tasks[t].state = "pending"
    /\ Cardinality(Running) < max_workers
    /\ tasks' = [ tasks EXCEPT ![t].state = "running" ]
    /\ UNCHANGED << inputs, pc, token, requested, genvars, batch, executor, futures,
                    harvested, drained, total_lines_processed, line_count, processed, out, exc >>

\* The pool process runs process_batch and sets the future's result or
\* exception.
W_Finish(t) ==
    /\ tasks[t].state = "running"
    /\ LET r == process_batch(tasks[t].batch)
       IN  tasks' = [ tasks EXCEPT ![t].state = IF r.raised THEN "failed" ELSE "completed",
                                   ![t].result = r.value ]
    /\ UNCHANGED << inputs, pc, token, requested, genvars, batch, executor, futures,
                    harvested, drained, total_lines_processed, line_count, processed, out, exc >>

\* -------------------------------------------------------------- serial.py
\* Variant: only JSON objects are accepted.
process_line_objects_only(line) ==
    IF line = << "{", "}" >> THEN [ raised |-> FALSE, value |-> line ]
    ELSE [ raised |-> TRUE, value |-> line ]

\* Variant: a parse error is caught and the line passed on.
process_line_catch(line) == [ raised |-> FALSE, value |-> line ]

\* process_line(line): json.loads(line), then return line.
process_line(line) ==
    IF JsonLoadsOk(line) THEN [ raised |-> FALSE, value |-> line ]
    ELSE [ raised |-> TRUE, value |-> line ]

\* main, lines 80-83.
S_CheckToken ==
    /\ prog = "serial" /\ pc = "start"
    /\ token' = Getenv(environ)
    /\ IF TokenMissing(token')
       THEN /\ out' = Append(out, PrintToken)
            /\ pc' = "done"
       ELSE /\ pc' = "request"
            /\ UNCHANGED out
    /\ UNCHANGED << inputs, requested, genvars, batch, poolvars,
                    total_lines_processed, line_count, processed, exc >>

\* main, lines 85-90 and 97-98: the GET, line_count = 0, the status test.
S_Request ==
    /\ prog = "serial" /\ pc = "request"
    /\ requested' = requested + 1
    /\ line_count' = 0
    /\ IF StatusOk(status_code)
       THEN /\ pc' = "read"
            /\ UNCHANGED out
       ELSE /\ out' = Append(out, PrintFailed(status_code))
            /\ pc' = "report"
    /\ UNCHANGED << inputs, token, genvars, batch, poolvars,
                    total_lines_processed, processed, exc >>

\* One iteration of `for line in gzip_file`.
S_ReadLine ==
    /\ prog = "serial" /\ pc = "read" /\ pos < Len(stream)
    /\ pos' = pos + 1
    /\ LET r == process_line(Line(stream[pos + 1]))
       IN  IF r.raised
           THEN /\ exc' = "JSONDecodeError"
                /\ pc' = "aborted"
                /\ UNCHANGED << line_count, processed >>
           ELSE /\ processed' = Append(processed, r.value)
                /\ line_count' = line_count + 1
                /\ UNCHANGED << exc, pc >>
    /\ UNCHANGED << inputs, token, requested, gen, gbatch, emitted, batch, poolvars,
                    total_lines_processed, out >>

\* gzip_file is exhausted.
S_EndOfStream ==
    /\ prog = "serial" /\ pc = "read" /\ pos = Len(stream)
    /\ pc' = "report"
    /\ UNCHANGED << inputs, token, requested, genvars, batch, poolvars,
                    total_lines_processed, line_count, processed, out, exc >>

\* main, lines 100-102.
S_Report ==
    /\ prog = "serial" /\ pc = "report"
    /\ out' = out \o << PrintTime, PrintTotal(line_count) >>
    /\ pc' = "done"
    /\ UNCHANGED << inputs, token, requested, genvars, batch, poolvars,
                    total_lines_processed, line_count, processed, exc >>

\* ------------------------------------------------------------ the machine
Init ==
    /\ prog \in { "serial", "parallel" }
    /\ environ \in Environments
    /\ status_code \in StatusCodes
    /\ stream \in SeqsUpTo(RawLines, MaxLines)
    /\ batch_size \in IF prog = "parallel" THEN 1..MaxBatchSize ELSE { 0 }
    /\ max_workers \in IF prog = "parallel" THEN 1..MaxWorkers ELSE { 0 }
    /\ pc = "start"
    /\ token = ""
    /\ requested = 0
    /\ executor = "none"
    /\ gen = "unstarted"
    /\ pos = 0
    /\ gbatch = <<>>
    /\ batch = <<>>
    /\ emitted = <<>>
    /\ tasks = <<>>
    /\ futures = {}
    /\ harvested = <<>>
    /\ drained = {}
    /\ total_lines_processed = 0
    /\ line_count = 0
    /\ processed = <<>>
    /\ out = <<>>
    /\ exc = ""

Next ==
    \/ P_CheckToken
    \/ P_Request
    \/ P_NextBatch
    \/ P_Admit
    \/ P_WaitOne
    \/ P_Submit
    \/ P_Drain
    \/ P_DrainDone
    \/ P_Unwind
    \/ P_Report
    \/ \E t \in 1..Len(tasks) : W_Start(t)
    \/ \E t \in 1..Len(tasks) : W_Finish(t)
    \/ S_CheckToken
    \/ S_Request
    \/ S_ReadLine
    \/ S_EndOfStream
    \/ S_Report

Spec == Init /\ [][Next]_vars

\* The steps of parallel.py's main (the generator it drives included).
Coordinator ==
    \/ P_CheckToken
    \/ P_Request
    \/ P_NextBatch
    \/ P_Admit
    \/ P_WaitOne
    \/ P_Submit
    \/ P_Drain
    \/ P_DrainDone
    \/ P_Unwind
    \/ P_Report

\* The pool processes are scheduled fairly: a work item that can be taken is
\* taken, and process_batch, once running, returns or raises.
WorkerFairness ==
    \A t \in 1..MaxLines :
        /\ WF_vars(t <= Len(tasks) /\ W_Start(t))
        /\ WF_vars(t <= Len(tasks) /\ W_Finish(t))

\* Fair workers; main itself may be arbitrarily slow.
WorkerFairSpec == Spec /\ WorkerFairness

\* Fair workers and a main process that keeps running while it can.
FairSpec == Spec /\ WorkerFairness /\ WF_vars(Coordinator)

TypeOK ==
    /\ pc \in { "start", "next_batch", "admit", "wait_one", "submit", "drain",
                "unwind", "report", "done", "aborted", "request", "read" }
    /\ gen \in { "unstarted", "open", "at87", "at90", "finished" }
    /\ pos \in 0..Len(stream)
    /\ futures \subseteq 1..Len(tasks)
    /\ drained \subseteq futures

\* ------------------------------------------------------- derived notions
Range(s) == { s[i] : i \in 1..Len(s) }

RECURSIVE Flatten(_)
Flatten(ss) == IF ss = <<>> THEN <<>> ELSE Head(ss) \o Flatten(Tail(ss))

RECURSIVE SumLen(_)
SumLen(ss) == IF ss = <<>> THEN 0 ELSE Len(Head(ss)) + SumLen(Tail(ss))

\* The Lines of the first n records of the stream.
LinesRead(n) == [ i \in 1..n |-> Line(stream[i]) ]

AllParse == \A i \in 1..Len(stream) : JsonLoadsOk(Line(stream[i]))

\* Batches submitted to the pool whose result() main has not yet called.
Outstanding == { t \in 1..Len(tasks) : t \notin Range(harvested) }

\* The batches whose count main has added to the running total.
Counted == [ i \in 1..Len(harvested) |->
               IF tasks[harvested[i]].state = "completed"
               THEN tasks[harvested[i]].batch ELSE <<>> ]

HasBadLine(b) == \E i \in 1..Len(b) : ~JsonLoadsOk(b[i])

Reported == \E i \in 1..Len(out) : out[i].msg = PrintTotal(0).msg

ReportsTotal(n) == \E i \in 1..Len(out) : out[i] = PrintTotal(n)

Occurrences(msg) == Cardinality({ i \in 1..Len(out) : out[i].msg = msg })

\* API_TOKEN is unset or empty.
NoToken == environ \in { Unset, "" }

\* The run has a credential and the endpoint answers 200.
Streaming == ~NoToken /\ status_code = 200

\* ------------------------------------------------------------------ claims
\* C1: in a parallel run the number of outstanding tasks (submitted, result
\* not yet harvested) never exceeds max_workers, whatever the completion
\* order; neither does main's set `futures`.
C1_OutstandingBounded ==
    prog = "parallel" =>
        /\ Cardinality(Outstanding) <= max_workers
        /\ Cardinality(futures) <= max_workers

\* C1 witness: the pool is full with two or more tasks while a further batch
\* waits for admission.
C1_Witness ==
    /\ prog = "parallel" /\ pc = "wait_one"
    /\ max_workers >= 2
    /\ Cardinality(Outstanding) = max_workers

\* C2: a parallel run over a stream whose lines all parse never aborts, and
\* when it finishes it reports a total equal to the number of lines.
C2_TotalEqualsLines ==
    (prog = "parallel" /\ Streaming /\ AllParse) =>
        /\ pc \notin { "unwind", "aborted" }
        /\ exc = ""
        /\ pc = "done" =>
              /\ total_lines_processed = Len(stream)
              /\ ReportsTotal(Len(stream))

\* C2 witness: a finished run over several batches, the last one short, with
\* one worker.
C2_Witness ==
    /\ prog = "parallel" /\ pc = "done" /\ AllParse
    /\ Len(stream) = MaxLines /\ batch_size = MaxBatchSize /\ max_workers = 1
    /\ Len(tasks) >= 2
    /\ ReportsTotal(MaxLines)

\* C3: the batches yielded so far, concatenated in emission order, are exactly
\* the lines read so far, in order; once the generator has returned they are
\* the whole stream and their lengths sum to the number of lines.
C3_BatchesPartitionStream ==
    (prog = "parallel" /\ Streaming) =>
        /\ Flatten(emitted) = LinesRead(pos)
        /\ SumLen(emitted) = pos
        /\ gen = "finished" => pos = Len(stream)

\* C3 witness: the generator has returned after several batches, the last
\* one short.
C3_Witness ==
    /\ prog = "parallel" /\ gen = "finished"
    /\ Len(emitted) >= 2
    /\ Len(emitted[Len(emitted)]) < batch_size
    /\ ~AllParse

\* C4: every yielded batch is non-empty and no longer than batch_size, only
\* the last may be shorter; an empty stream yields no batch and a stream of
\* exactly batch_size lines yields one full batch.
C4_BatchSizes ==
    (prog = "parallel" /\ Streaming) =>
        /\ \A i \in 1..Len(emitted) :
              /\ 0 < Len(emitted[i])
              /\ Len(emitted[i]) <= batch_size
              /\ i < Len(emitted) => Len(emitted[i]) = batch_size
        /\ gen = "finished" =>
              /\ Len(stream) = 0 => emitted = <<>>
              /\ Len(stream) = batch_size => emitted = << LinesRead(batch_size) >>
              /\ Len(emitted) * batch_size < Len(stream) + batch_size

\* C4 witness: a stream of exactly batch_size (at least two) lines has been
\* read to its end.
C4_Witness ==
    /\ prog = "parallel" /\ gen = "finished" /\ Streaming
    /\ batch_size >= 2 /\ Len(stream) = batch_size
    /\ Len(emitted) = 1

\* C5: a batch with a line that does not parse gives a failed task, never a
\* count; the running total is the sum of the sizes of the harvested
\* completed batches only; and no run with a failed task reports a total.
C5_FailedBatchAborts ==
    prog = "parallel" =>
        /\ \A t \in 1..Len(tasks) :
              /\ tasks[t].state = "failed" => HasBadLine(tasks[t].batch)
              /\ tasks[t].state = "completed" =>
                    ~HasBadLine(tasks[t].batch) /\ tasks[t].result = Len(tasks[t].batch)
              /\ HasBadLine(tasks[t].batch) => tasks[t].result = 0
        /\ total_lines_processed = SumLen(Counted)
        /\ (\E t \in 1..Len(tasks) : tasks[t].state = "failed") =>
              /\ pc \notin { "report", "done" }
              /\ ~Reported
        /\ pc = "aborted" => ~Reported /\ exc # ""

\* C5 witness: the run aborted on a batch of three with one bad line among
\* good ones, after counting another batch.
C5_Witness ==
    /\ prog = "parallel" /\ pc = "aborted"
    /\ total_lines_processed > 0
    /\ \E t \in 1..Len(tasks) :
          /\ tasks[t].state = "failed"
          /\ Len(tasks[t].batch) = 3
          /\ \E i \in 1..3 : JsonLoadsOk(tasks[t].batch[i])

\* C6: in both programs an error outcome (missing credential, non-200
\* status, parse error) is never followed by the end-of-run report.
C6_ErrorNeverReports ==
    (\/ Occurrences(PrintToken.msg) > 0
     \/ Occurrences(PrintFailed(0).msg) > 0
     \/ exc # "") => ~Reported

\* C7: in both programs, with API_TOKEN unset or empty, the run prints the
\* diagnostic and ends: no request, no pool, no batch, no report; and no run
\* issues a request or creates the pool before the check has passed.
C7_TokenCheckedFirst ==
    /\ NoToken =>
          /\ requested = 0 /\ executor = "none" /\ pos = 0
          /\ emitted = <<>> /\ tasks = <<>>
          /\ ~Reported
          /\ pc \in { "start", "done" }
          /\ pc = "done" => out = << PrintToken >>
    /\ (requested > 0 \/ executor # "none" \/ tasks # <<>>) =>
          pc # "start" /\ token # ""

\* C7 witness: the parallel program has ended on an unset API_TOKEN.
C7_Witness ==
    /\ prog = "parallel" /\ environ = Unset /\ pc = "done"
    /\ out = << PrintToken >>

\* C8: in a parallel run answered with a status other than 200 no batch is
\* yielded, no task submitted, the total stays 0 and the diagnostic with the
\* status code is printed by the request.
C8_Non200NoBatches ==
    (prog = "parallel" /\ ~NoToken /\ status_code # 200) =>
        /\ emitted = <<>> /\ tasks = <<>> /\ futures = {}
        /\ pos = 0
        /\ total_lines_processed = 0
        /\ requested > 0 =>
              /\ out # <<>>
              /\ Head(out) = PrintFailed(status_code)
              /\ Occurrences(PrintFailed(0).msg) = 1

\* C8 witness: the run ended after a 503.
C8_Witness ==
    /\ prog = "parallel" /\ status_code = 503 /\ pc = "done"
    /\ out # <<>> /\ Head(out) = PrintFailed(503)
    /\ total_lines_processed = 0

\* C9: in a parallel run the elapsed time and the total are printed at most
\* once, and only when the generator has returned and every submitted task
\* has been harvested and none is outstanding.
C9_ReportOnceAfterHarvest ==
    prog = "parallel" =>
        /\ Occurrences(PrintTotal(0).msg) <= 1
        /\ Occurrences(PrintTime.msg) <= 1
        /\ (pc = "report" \/ Reported) =>
              /\ gen = "finished"
              /\ Outstanding = {}
              /\ \A t \in 1..Len(tasks) : tasks[t].state = "completed"
              /\ Len(harvested) = Len(tasks)

\* C9 witness: a run of three or more tasks has reported.
C9_Witness ==
    /\ prog = "parallel" /\ pc = "done" /\ Reported
    /\ Len(tasks) >= 3 /\ max_workers >= 2

\* The outcome of a finished parallel run.
Outcome ==
    IF pc = "aborted" THEN [ kind |-> "abort", total |-> 0 ]
    ELSE IF Reported THEN [ kind |-> "total", total |-> out[Len(out)].arg ]
    ELSE [ kind |-> "none", total |-> 0 ]

\* What the inputs alone say the outcome is.
OutcomeOfInputs ==
    IF NoToken THEN [ kind |-> "none", total |-> 0 ]
    ELSE IF status_code # 200 THEN [ kind |-> "total", total |-> 0 ]
    ELSE IF ~AllParse THEN [ kind |-> "abort", total |-> 0 ]
    ELSE [ kind |-> "total", total |-> Len(stream) ]

\* C10: the outcome of a parallel run (abort, or the reported total) is a
\* function of its inputs alone: every completion order and every schedule
\* of the workers, hence every re-run, ends in the same outcome.
C10_OutcomeDeterministic ==
    (prog = "parallel" /\ pc \in { "done", "aborted" }) => Outcome = OutcomeOfInputs

\* C10 witness: a run has ended after harvesting results out of submission
\* order.
C10_Witness ==
    /\ prog = "parallel" /\ pc \in { "done", "aborted" }
    /\ \E i, j \in 1..Len(harvested) : i < j /\ harvested[i] > harvested[j]

\* The index of the first line of the stream that does not parse, 0 if none.
FirstBad ==
    IF AllParse THEN 0
    ELSE CHOOSE i \in 1..Len(stream) :
            /\ ~JsonLoadsOk(Line(stream[i]))
            /\ \A j \in 1..(i - 1) : JsonLoadsOk(Line(stream[j]))

\* C11: in a serial run over a stream whose lines all parse (the empty
\* stream included) the lines are processed once each in stream order, no
\* error is raised, and the run reports line_count = number of lines.
C11_SerialCountsEveryLine ==
    (prog = "serial" /\ Streaming /\ AllParse) =>
        /\ processed = LinesRead(pos)
        /\ pc # "start" => line_count = pos
        /\ exc = "" /\ pc # "aborted"
        /\ pc \in { "report", "done" } => pos = Len(stream)
        /\ pc = "done" =>
              /\ line_count = Len(stream)
              /\ ReportsTotal(Len(stream))

\* C11 witness: a serial run over a full-length stream with both kinds of
\* JSON document has reported.
C11_Witness ==
    /\ prog = "serial" /\ pc = "done" /\ AllParse
    /\ Len(stream) = MaxLines
    /\ \E i, j \in 1..Len(stream) : Line(stream[i]) # Line(stream[j])
    /\ ReportsTotal(MaxLines)

\* C12: in a serial run the first line that does not parse ends the run: the
\* lines before it were counted, it is not, nothing after it is read, and no
\* report is printed.
C12_SerialAbortsOnFirstBadLine ==
    (prog = "serial" /\ Streaming /\ ~AllParse) =>
        /\ pos <= FirstBad
        /\ pc \notin { "report", "done" } /\ ~Reported
        /\ processed = LinesRead(line_count)
        /\ pc = "aborted" <=> pos = FirstBad
        /\ pc = "aborted" =>
              /\ exc # ""
              /\ line_count = FirstBad - 1
              /\ out = <<>>
              /\ ~ENABLED Next

\* C12 witness: a serial run aborted on a bad line that has good lines before
\* and further lines after it.
C12_Witness ==
    /\ prog = "serial" /\ pc = "aborted"
    /\ line_count >= 1
    /\ pos < Len(stream)

\* C13: no wait of main times out: while a submitted task has neither
\* returned nor raised, the run has not finished, neither by reporting nor by
\* dying, also after another task's failure has been harvested; so a task
\* that never completes keeps the run from ever finishing.
C13_NoFinishWhileTaskRuns ==
    (prog = "parallel" /\ \E t \in 1..Len(tasks) : ~Done(t)) =>
        /\ pc \notin { "report", "done", "aborted" }
        /\ executor = "open"
        /\ ~Reported

\* C13 witness: main has harvested a failure and waits for a task that is
\* still running.
C13_Witness ==
    /\ prog = "parallel" /\ pc = "unwind" /\ exc # ""
    /\ \E t \in 1..Len(tasks) : tasks[t].state = "running"

\* C14: with fair workers every submitted task is completed or failed in the
\* end and stays so, whatever main does meanwhile, its abort included: no
\* task is cancelled or dropped.
C14_EverySubmittedTaskFinishes ==
    <>[](prog = "parallel" => \A t \in 1..Len(tasks) : Done(t))

\* C14 witness: main has died on a harvested failure and a task it never
\* harvested has completed.
C14_Witness ==
    /\ prog = "parallel" /\ pc = "aborted"
    /\ \E t \in 1..Len(tasks) :
          /\ t \notin Range(harvested)
          /\ tasks[t].state = "completed"

\* C15 as stated: every blocking wait of the submission loop harvests exactly
\* one finished task, takes exactly it out of the outstanding set, and is
\* followed at once by exactly one submission that refills the set to
\* max_workers.
C15_WaitThenSubmitAlways ==
    [][ /\ (pc = "wait_one" /\ pc' # "wait_one") =>
              /\ \E f \in futures :
                    /\ tasks[f].state \in { "completed", "failed" }
                    /\ harvested' = Append(harvested, f)
              /\ pc' = "submit"
        /\ (pc = "submit" /\ pc' # "submit") =>
              /\ Len(tasks') = Len(tasks) + 1
              /\ harvested # <<>> => Cardinality(futures') = max_workers
      ]_vars

\* C15 amended: every blocking wait of the submission loop is taken with
\* max_workers futures in the set and ends by harvesting exactly one finished
\* future, though others have finished too. If that task completed, its count
\* is added, exactly it leaves the set and exactly one submission follows at
\* once, refilling the set to max_workers; if it failed, its exception ends
\* the loop: the set is left as it is and nothing is submitted.
C15_WaitHarvestsExactlyOne ==
    [][ /\ (pc = "wait_one" /\ pc' # "wait_one") =>
              /\ Cardinality(futures) = max_workers
              /\ \E f \in futures :
                    /\ tasks[f].state \in { "completed", "failed" }
                    /\ harvested' = Append(harvested, f)
                    /\ IF tasks[f].state = "completed"
                       THEN /\ futures' = futures \ { f }
                            /\ total_lines_processed' =
                                  total_lines_processed + Len(tasks[f].batch)
                            /\ pc' = "submit"
                       ELSE /\ futures' = futures
                            /\ total_lines_processed' = total_lines_processed
                            /\ pc' = "unwind"
              /\ tasks' = tasks
        /\ (pc = "wait_one" /\ pc' = "wait_one") =>
              harvested' = harvested /\ futures' = futures
        /\ (pc = "submit" /\ pc' # "submit") =>
              /\ pc' = "next_batch"
              /\ Len(tasks') = Len(tasks) + 1
              /\ futures' = futures \cup { Len(tasks') }
              /\ harvested' = harvested
              /\ harvested # <<>> => Cardinality(futures') = max_workers
        /\ (pc = "unwind" \/ exc # "") => Len(tasks') = Len(tasks)
      ]_vars

\* C15 witness: a wait has harvested one task and a submission is due, while
\* another task of the set has finished too and stays in the set.
C15_Witness ==
    /\ prog = "parallel" /\ pc = "submit"
    /\ harvested # <<>>
    /\ Cardinality(futures) = max_workers - 1
    /\ \E f \in futures : Done(f)

\* C16: once main has harvested a failed task it submits nothing more, pulls
\* no further batch, reads no further line, harvests nothing more, adds
\* nothing to the total, and no finished task is run again; while a failure
\* that has happened is not yet harvested, main's next submission, pull or
\* harvest stays possible as if there were none.
C16_HarvestedFailureStopsMain ==
    /\ [][ (prog = "parallel" /\ exc # "") =>
              /\ Len(tasks') = Len(tasks)
              /\ emitted' = emitted /\ pos' = pos /\ gen' = gen
              /\ harvested' = harvested /\ futures' = futures
              /\ total_lines_processed' = total_lines_processed
              /\ \A t \in 1..Len(tasks) :
                    /\ tasks'[t].batch = tasks[t].batch
                    /\ Done(t) => tasks'[t] = tasks[t]
         ]_vars
    /\ []( (prog = "parallel" /\ exc # "") =>
              /\ pc \in { "unwind", "aborted" }
              /\ tasks[harvested[Len(harvested)]].state = "failed"
              /\ \A i \in 1..(Len(harvested) - 1) : tasks[harvested[i]].state = "completed" )
    /\ []( (prog = "parallel" /\ exc = "") =>
              /\ pc = "submit" => ENABLED P_Submit
              /\ pc = "next_batch" => ENABLED (P_Request \/ P_NextBatch)
              /\ (pc = "wait_one" /\ \E f \in futures : tasks[f].state = "completed")
                    => ENABLED (P_WaitOne /\ pc' = "submit")
              /\ (pc = "drain" /\ \E f \in futures \ drained : tasks[f].state = "completed")
                    => ENABLED (P_Drain /\ pc' = "drain") )

\* C16 witness: main died on a harvested failure with a pulled batch never
\* submitted, lines never read and a completed task never harvested.
C16_Witness ==
    /\ prog = "parallel" /\ pc = "aborted"
    /\ Len(emitted) > Len(tasks)
    /\ pos < Len(stream)
    /\ \E t \in 1..Len(tasks) : t \notin Range(harvested) /\ tasks[t].state = "completed"

\* Main is blocked: it has not ended and has no step to take until a pool
\* process finishes a task.
Blocked ==
    /\ prog = "parallel" /\ pc \notin { "done", "aborted" }
    /\ ~ENABLED Coordinator

\* Main waits in the submission loop on a full set with a batch in hand.
BlockedInLoop ==
    /\ pc = "wait_one"
    /\ Cardinality(futures) = max_workers
    /\ Len(emitted) = Len(tasks) + 1 /\ batch = emitted[Len(emitted)]
    /\ gen \in { "at87", "at90" }

\* Main waits in the final loop after the generator has returned.
BlockedInDrain == pc = "drain" /\ gen = "finished" /\ Len(emitted) = Len(tasks)

\* C17 as stated: main blocks on tasks only in the submission loop with
\* exactly max_workers futures outstanding and a batch in hand, or in the
\* final loop after the generator has returned.
C17_BlocksInLoopOrDrainOnly ==
    /\ Blocked => (BlockedInLoop \/ BlockedInDrain)
    /\ (prog = "parallel" /\ pc = "wait_one") => BlockedInLoop
    /\ (prog = "parallel" /\ pc = "drain") => BlockedInDrain

\* C17 amended: main blocks on tasks in three situations only: in the
\* submission loop with exactly max_workers futures outstanding and a batch
\* in hand, in the final loop after the generator has returned, and, once it
\* has harvested a failure, in the shutdown of the pool at the exit of the
\* with block, which waits for the tasks still in flight. It never waits with
\* fewer than max_workers futures while batches remain, nor anywhere else.
C17_BlocksInLoopDrainOrShutdown ==
    /\ Blocked =>
          \/ BlockedInLoop
          \/ BlockedInDrain
          \/ pc = "unwind" /\ exc # "" /\ \E t \in 1..Len(tasks) : ~Done(t)
    /\ (prog = "parallel" /\ pc = "wait_one") => BlockedInLoop
    /\ (prog = "parallel" /\ pc = "drain") => BlockedInDrain
    /\ (prog = "parallel" /\ pc \in { "start", "next_batch", "admit", "submit", "report" })
          => ENABLED Coordinator

\* C17 witness: main is blocked in the shutdown of the pool after a failure,
\* with a batch pulled and never submitted.
C17_Witness ==
    /\ Blocked /\ pc = "unwind"
    /\ Len(emitted) > Len(tasks)

\* C18: in a parallel run every task is harvested at most once and only when
\* it has finished, its count is added only if it completed, the running
\* total is the sum of the sizes of the completed batches harvested so far and
\* so at most the number of lines read; a task harvested in the submission
\* loop is not in the set the final loop goes through; and a step of a pool
\* process changes neither the total nor what has been harvested.
C18_EachResultAddedOnce ==
    /\ []( prog = "parallel" =>
              /\ \A i, j \in 1..Len(harvested) : harvested[i] = harvested[j] => i = j
              /\ \A i \in 1..Len(harvested) : Done(harvested[i])
              /\ total_lines_processed = SumLen(Counted)
              /\ total_lines_processed <= pos
              /\ pc = "drain" => (futures \ drained) \cap Range(harvested) = {}
              /\ drained \subseteq Range(harvested) )
    /\ [][ prog = "parallel" =>
              /\ harvested' # harvested =>
                    \E f \in 1..Len(tasks) :
                        /\ f \notin Range(harvested)
                        /\ Done(f)
                        /\ harvested' = Append(harvested, f)
                        /\ total_lines_processed' = total_lines_processed +
                              (IF tasks[f].state = "completed" THEN Len(tasks[f].batch) ELSE 0)
              /\ harvested' = harvested => total_lines_processed' = total_lines_processed
              /\ (tasks' # tasks /\ Len(tasks') = Len(tasks)) =>
                    /\ total_lines_processed' = total_lines_processed
                    /\ harvested' = harvested
         ]_vars

\* C18 witness: a run has reported after harvesting some tasks in the
\* submission loop and the others in the final loop.
C18_Witness ==
    /\ prog = "parallel" /\ pc = "done" /\ Reported
    /\ futures # {} /\ drained = futures
    /\ Len(tasks) > Cardinality(futures)
    /\ total_lines_processed = MaxLines

\* C19: main pulls a batch before it tests for room, so the generator is at
\* most one batch ahead of the submissions, and exactly one ahead while main
\* holds a batch; the batches yielded and not yet harvested number at most
\* max_workers + 1; and while main waits for a task, or after it has failed,
\* no line is read and no batch is yielded.
C19_BatcherOneAhead ==
    /\ []( prog = "parallel" =>
              /\ Len(emitted) - Len(tasks) \in { 0, 1 }
              /\ pc \in { "admit", "wait_one", "submit" } => Len(emitted) = Len(tasks) + 1
              /\ pc \in { "next_batch", "drain", "report", "done" } => Len(emitted) = Len(tasks)
              /\ \A t \in 1..Len(tasks) : tasks[t].batch = emitted[t]
              /\ Len(emitted) - Len(harvested) <= max_workers + 1
              /\ Len(emitted) - Len(harvested) = max_workers + 1 => pc \in { "admit", "wait_one" } )
    /\ [][ (prog = "parallel" /\ pc \in { "wait_one", "drain", "unwind" }) =>
              pos' = pos /\ emitted' = emitted /\ gen' = gen /\ gbatch' = gbatch
         ]_vars

\* C19 witness: main is blocked on a full set with one more batch in hand,
\* max_workers + 1 batches yielded and none harvested, lines still unread.
C19_Witness ==
    /\ Blocked /\ pc = "wait_one"
    /\ max_workers >= 2
    /\ Len(emitted) - Len(harvested) = max_workers + 1
    /\ pos < Len(stream)

Terminated == pc \in { "done", "aborted" }

\* C20: with fair workers and a running main, every parallel run over a
\* finite stream terminates, by reporting or by dying on a harvested failure;
\* in particular main is never stuck waiting on an empty set of futures or on
\* a future it has already harvested, which would keep it from terminating.
C20_ParallelRunTerminates == <>(prog = "parallel" => Terminated)

\* C20 witness: a run of several tasks has died on a failure harvested by
\* the blocking wait of the submission loop, with the stream not yet read to
\* its end.
C20_Witness ==
    /\ prog = "parallel" /\ pc = "aborted"
    /\ Len(tasks) >= 2 /\ pos < Len(stream)
    /\ \A t \in 1..Len(tasks) : Done(t)

====
